---- MODULE Spec2Model ----
(***************************************************************************)
(* Planetary Gear Generator (src/__init__.py).                             *)
(*                                                                         *)
(* Numbers.  Lengths are exact rationals.  A module (scale) is a record    *)
(* [num, den] with den > 0, in units of 1e-4 scene units; the radii of a   *)
(* gear built with that module are integers in units of 1 / (1000 * den)   *)
(* of that unit, so every comparison between radii of one gear is the      *)
(* comparison the code makes.  cos(pressure angle) is taken from a table   *)
(* in hundredths.  An angle that is a rational multiple of pi is a record  *)
(* [num, den].                                                             *)
(*                                                                         *)
(* Points.  polar(radius, angle) is kept in polar form: a point is         *)
(* [radius, angle, rot] where angle is the symbolic angle                  *)
(* sign * (involute angle at radius inv + mult * off) and rot counts the   *)
(* tooth_angle rotations rotate_point_2d has applied.  Two points are      *)
(* equal exactly when the code computes them from the same radius, angle   *)
(* and rotation.                                                           *)
(***************************************************************************)
EXTENDS Integers, Sequences, FiniteSets, TLC

VARIABLES props, requested, objects, meshes, linked, bmeshes, runs, last

vars == <<props, requested, objects, meshes, linked, bmeshes, runs, last>>

---------------------------------------------------------------------------
(* Bounds of the exploration *)

\* number of times the operator is run in one session
MaxExecutes == 1

\* number of direct create_gear_object calls in one session
MaxCalls == 1

---------------------------------------------------------------------------
(* Program constants *)

num_segments == 5

DefaultSunTeeth == 32
DefaultPlanetTeeth == 16
DefaultNumPlanets == 6
MinTeeth == 4
MaxTeeth == 200
MinPlanets == 1
MaxPlanets == 20
\* float properties, in units of 1e-4 (degrees for the pressure angle,
\* multiples of the module for the ring margin)
DefaultPressureAngle == 20
DefaultScale == 500
DefaultThickness == 2000
DefaultRingMargin == 4
\* the default of create_gear_object's ring_margin parameter
RingMarginArg == 4
DefaultClearance == 2
MinOuterVerts == 64

None == 0

NoError == "none"

Abs(x) == IF x < 0 THEN 0 - x ELSE x

Max(a, b) == IF a >= b THEN a ELSE b

Clamp(v, lo, hi) == IF v < lo THEN lo ELSE IF v > hi THEN hi ELSE v

Reverse(s) == [i \in 1..Len(s) |-> s[Len(s) + 1 - i]]

\* math.cos(math.radians(deg)), in hundredths
CosPct(deg) ==
    CASE deg = 10 -> 98
      [] deg = 20 -> 94
      [] deg = 30 -> 87
      [] deg = 40 -> 77

---------------------------------------------------------------------------
(* Gear profile generation *)

polar(radius, angle) == [radius |-> radius, angle |-> angle, rot |-> 0]

\* The value is the involute angle of `radius`, kept as the radius it is
\* taken at (0: the clamped value 0).  radius / base_radius raises
\* ZeroDivisionError when base_radius = 0; math.sqrt raises ValueError when
\* (radius / base_radius)^2 < 1.
calculate_involute_angle(base_radius, radius) ==
    IF radius <= base_radius THEN [raised |-> NoError, inv |-> 0]
    ELSE IF base_radius = 0 THEN [raised |-> "ZeroDivisionError", inv |-> 0]
    ELSE IF Abs(radius) < Abs(base_radius) THEN [raised |-> "ValueError", inv |-> 0]
    ELSE [raised |-> NoError, inv |-> radius]

get_involute_point(base_radius, side, angle_offset, radius) ==
    LET r == IF radius < base_radius THEN base_radius ELSE radius
        involute_angle == calculate_involute_angle(base_radius, r)
    IN [raised |-> involute_angle.raised,
        point  |-> polar(r, [sign |-> side, inv |-> involute_angle.inv, off |-> angle_offset, mult |-> 1])]

\* fraction = i / num_segments; (1 - fraction) * start_radius + fraction *
\* outer_radius is start_radius + fraction * (outer_radius - start_radius),
\* and the radii are multiples of num_segments
get_tooth_profile_point(i, root_radius, base_radius, outer_radius, angle_offset, side) ==
    LET start_radius == Max(base_radius, root_radius)
        current_radius == start_radius + (i * (outer_radius - start_radius)) \div num_segments
    IN get_involute_point(base_radius, side, angle_offset, current_radius)

\* rotation = i * tooth_angle
rotate_point_2d(point, i) == [point EXCEPT !.rot = @ + i]

pitch_radius_of(num_teeth, scale) == 500 * scale.num * num_teeth

base_radius_of(num_teeth, scale, pressure_angle_deg) ==
    5 * scale.num * num_teeth * CosPct(pressure_angle_deg)

outer_radius_of(num_teeth, scale) == pitch_radius_of(num_teeth, scale) + 1000 * scale.num

root_radius_of(num_teeth, scale) ==
    pitch_radius_of(num_teeth, scale) - 1250 * scale.num

\* tooth_points of one tooth (lines 73-87), before any exception is looked
\* at: the root start, `samples` points up the face (side 1), `samples`
\* points down the other face (side -1), the root end
tooth_points_of(samples, num_teeth, scale, pressure_angle_deg) ==
    LET base_radius == base_radius_of(num_teeth, scale, pressure_angle_deg)
        outer_radius == outer_radius_of(num_teeth, scale)
        root_radius == root_radius_of(num_teeth, scale)
        off == "involute_angle_offset"
        root_start_angle == IF root_radius < base_radius
                            THEN [sign |-> 1, inv |-> 0, off |-> off, mult |-> 1]
                            ELSE [sign |-> -1, inv |-> 0, off |-> "pi/num_teeth", mult |-> 1]
        root_end_angle == IF root_radius < base_radius
                          THEN [sign |-> -1, inv |-> 0, off |-> off, mult |-> 1]
                          ELSE [sign |-> 1, inv |-> 0, off |-> "pi/num_teeth", mult |-> 1]
        up == [k \in 1..samples |->
                 get_tooth_profile_point(k - 1, root_radius, base_radius, outer_radius, off, 1)]
        down == [k \in 1..samples |->
                 get_tooth_profile_point(samples - k, root_radius, base_radius, outer_radius, off, -1)]
    IN <<[raised |-> NoError, point |-> polar(root_radius, root_start_angle)]>>
       \o up \o down
       \o <<[raised |-> NoError, point |-> polar(root_radius, root_end_angle)]>>

\* range(num_segments) in place of range(num_segments + 1)
tooth_profile_short(num_teeth, scale, pressure_angle_deg) ==
    tooth_points_of(num_segments, num_teeth, scale, pressure_angle_deg)

\* lines 79 and 83: range(num_segments + 1) and range(num_segments, -1, -1)
tooth_profile(num_teeth, scale, pressure_angle_deg) ==
    tooth_points_of(num_segments + 1, num_teeth, scale, pressure_angle_deg)

\* The first exception build_gear_verts raises, in evaluation order: line 71
\* (the offset), lines 81 and 85 (the samples), line 91 (2*pi / num_teeth).
build_gear_raises(num_teeth, scale, pressure_angle_deg) ==
    LET pitch_radius == pitch_radius_of(num_teeth, scale)
        base_radius == base_radius_of(num_teeth, scale, pressure_angle_deg)
        offset == calculate_involute_angle(base_radius, pitch_radius)
        tooth == tooth_profile(num_teeth, scale, pressure_angle_deg)
        bad == {k \in 1..Len(tooth) : tooth[k].raised # NoError}
    IN IF offset.raised # NoError THEN offset.raised
       ELSE IF bad # {} THEN tooth[CHOOSE k \in bad : \A j \in bad : k <= j].raised
       ELSE IF num_teeth = 0 THEN "ZeroDivisionError"
       ELSE NoError

\* lines 89-95: range(num_teeth) is empty for num_teeth <= 0
replicate(tooth_points, num_teeth) ==
    IF num_teeth <= 0 THEN << >>
    ELSE [k \in 1..(num_teeth * Len(tooth_points)) |->
            rotate_point_2d(tooth_points[((k - 1) % Len(tooth_points)) + 1],
                            (k - 1) \div Len(tooth_points))]

\* the first point is not repeated
close_loop_open(all_points, is_internal) ==
    IF is_internal THEN Reverse(all_points) ELSE all_points

\* the loop is closed before the reversal
close_loop_early(all_points, is_internal) ==
    LET pts == IF all_points # << >> THEN Append(all_points, all_points[1]) ELSE all_points
    IN IF is_internal THEN Reverse(pts) ELSE pts

\* lines 97-101
close_loop(all_points, is_internal) ==
    LET pts == IF is_internal THEN Reverse(all_points) ELSE all_points
    IN IF pts # << >> THEN Append(pts, pts[1]) ELSE pts

\* The outline build_gear_verts returns when it raises nothing.
build_gear_verts(num_teeth, scale, is_internal, pressure_angle_deg) ==
    LET tooth == tooth_profile(num_teeth, scale, pressure_angle_deg)
        tooth_points == [k \in 1..Len(tooth) |-> tooth[k].point]
    IN close_loop(replicate(tooth_points, num_teeth), is_internal)

---------------------------------------------------------------------------
(* Mesh construction.  w is bpy.data and the bmesh builders:               *)
(* [objects, meshes, bmeshes]; an object or a mesh is known by its index.  *)

bm_free(w, bm) == [w EXCEPT !.bmeshes[bm].frees = @ + 1]

\* lines 119-125: the outer circle of a ring, its first point repeated
outer_verts_2d(num_teeth, scale, ring_margin) ==
    LET pitch_radius == pitch_radius_of(num_teeth, scale)
        outer_radius == pitch_radius + 2000 * scale.num + 1000 * scale.num * ring_margin
        num_outer_verts == Max(num_teeth * 2, MinOuterVerts)
        ring == [k \in 1..num_outer_verts |->
                   polar(outer_radius, [sign |-> 1, inv |-> 0,
                                        off |-> "2*pi/num_outer_verts", mult |-> k - 1])]
    IN Append(ring, ring[1])

\* lines 113-129: the positions of the vertices handed to bm.faces.new, one
\* new vertex per element
face_verts(verts_2d, num_teeth, scale, is_internal, ring_margin) ==
    IF ~is_internal THEN verts_2d
    ELSE outer_verts_2d(num_teeth, scale, ring_margin) \o verts_2d

\* faces_new is what bm.faces.new does: "OK" or "ValueError".
create_gear_object(w, name, num_teeth, scale, is_internal, thickness, pressure_angle_deg, ring_margin, faces_new) ==
    LET bm == Len(w.bmeshes) + 1
        w0 == [w EXCEPT !.bmeshes = Append(@, [frees |-> 0])]
        raised == build_gear_raises(num_teeth, scale, pressure_angle_deg)
        verts_2d == build_gear_verts(num_teeth, scale, is_internal, pressure_angle_deg)
        mesh == [name |-> name,
                 geom |-> [num_teeth |-> num_teeth, scale |-> scale,
                           is_internal |-> is_internal,
                           pressure_angle_deg |-> pressure_angle_deg,
                           ring_margin |-> ring_margin],
                 extruded |-> thickness > 0,
                 thickness |-> thickness]
        w1 == [w0 EXCEPT !.meshes = Append(@, mesh)]
        w2 == bm_free(w1, bm)
        obj == [name |-> name, index |-> 0, data |-> Len(w2.meshes),
                location |-> [radius |-> 0, angle |-> [num |-> 0, den |-> 1]],
                rotation_z |-> [num |-> 0, den |-> 1], alive |-> TRUE]
        w3 == [w2 EXCEPT !.objects = Append(@, obj)]
    IN IF raised # NoError
       THEN [w |-> w0, raised |-> raised, ret |-> None, path |-> "raise", bm |-> bm]
       ELSE IF verts_2d = << >>
       THEN [w |-> w0, raised |-> NoError, ret |-> None, path |-> "empty outline", bm |-> bm]
       ELSE IF faces_new = "ValueError"
       THEN [w |-> bm_free(w0, bm), raised |-> NoError, ret |-> None,
             path |-> "face error", bm |-> bm]
       ELSE [w |-> w3, raised |-> NoError, ret |-> Len(w3.objects),
             path |-> "completed", bm |-> bm]

\* bm.to_mesh: the face of a mesh, from the arguments it was built with
mesh_face(mesh) ==
    face_verts(build_gear_verts(mesh.geom.num_teeth, mesh.geom.scale,
                                mesh.geom.is_internal, mesh.geom.pressure_angle_deg),
               mesh.geom.num_teeth, mesh.geom.scale, mesh.geom.is_internal,
               mesh.geom.ring_margin)

---------------------------------------------------------------------------
(* State *)

World == [objects |-> objects, meshes |-> meshes, bmeshes |-> bmeshes]

DefaultProps ==
    [sun_teeth |-> DefaultSunTeeth, planet_teeth |-> DefaultPlanetTeeth,
     num_planets |-> DefaultNumPlanets, pressure_angle |-> DefaultPressureAngle,
     scale |-> DefaultScale, thickness |-> DefaultThickness,
     ring_margin |-> DefaultRingMargin, clearance |-> DefaultClearance]

NoCall ==
    [called |-> FALSE, num_teeth |-> 0, scale |-> [num |-> 1, den |-> 1],
     is_internal |-> FALSE, thickness |-> 0, pressure_angle_deg |-> DefaultPressureAngle,
     raised |-> NoError, path |-> "", ret |-> None, bm |-> 0,
     verts_2d |-> << >>, face |-> << >>]

Init ==
    /\ props = DefaultProps
    /\ requested = [sun_teeth |-> DefaultSunTeeth, planet_teeth |-> DefaultPlanetTeeth,
                    num_planets |-> DefaultNumPlanets]
    /\ objects = << >>
    /\ meshes = << >>
    /\ linked = {}
    /\ bmeshes = << >>
    /\ runs = << >>
    /\ last = NoCall

---------------------------------------------------------------------------
(* A script calls create_gear_object *)

CallTeeth == {-40, -2, 0, 3, 4, 5}
CallAngles == {10, 20, 40}
CallThickness == {0, DefaultThickness}
CallScales == {[num |-> DefaultScale, den |-> 1]}

CallCreateGear ==
    /\ Len(bmeshes) < MaxCalls
    /\ \E num_teeth \in CallTeeth, is_internal \in BOOLEAN, angle \in CallAngles,
          thickness \in CallThickness, scale \in CallScales,
          faces_new \in {"OK", "ValueError"} :
          LET call == create_gear_object(World, "Gear", num_teeth, scale, is_internal,
                                         thickness, angle, RingMarginArg, faces_new)
              verts == IF call.raised = NoError
                       THEN build_gear_verts(num_teeth, scale, is_internal, angle)
                       ELSE << >>
          IN /\ objects' = call.w.objects
             /\ meshes' = call.w.meshes
             /\ bmeshes' = call.w.bmeshes
             /\ last' = [called |-> TRUE, num_teeth |-> num_teeth, scale |-> scale,
                         is_internal |-> is_internal, thickness |-> thickness,
                         pressure_angle_deg |-> angle,
                         raised |-> call.raised, path |-> call.path,
                         ret |-> call.ret, bm |-> call.bm,
                         verts_2d |-> verts,
                         face |-> IF call.ret # None
                                  THEN mesh_face(call.w.meshes[call.w.objects[call.ret].data])
                                  ELSE << >>]
    /\ UNCHANGED <<props, requested, linked, runs>>

NextGear == CallCreateGear

SpecGear == Init /\ [][NextGear]_vars

---------------------------------------------------------------------------
(* Property assignment.  The declarations of lines 149-151 give each       *)
(* integer property a hard range: an assignment outside it stores the      *)
(* nearest bound.  requested keeps the values that were asked for.         *)

SunTeethRequests == {0, 5}
PlanetTeethRequests == {-3}
NumPlanetsRequests == {0, 2}

SetSunTeeth ==
    \E v \in SunTeethRequests :
       /\ props' = [props EXCEPT !.sun_teeth = Clamp(v, MinTeeth, MaxTeeth)]
       /\ requested' = [requested EXCEPT !.sun_teeth = v]
       /\ UNCHANGED <<objects, meshes, linked, bmeshes, runs, last>>

SetPlanetTeeth ==
    \E v \in PlanetTeethRequests :
       /\ props' = [props EXCEPT !.planet_teeth = Clamp(v, MinTeeth, MaxTeeth)]
       /\ requested' = [requested EXCEPT !.planet_teeth = v]
       /\ UNCHANGED <<objects, meshes, linked, bmeshes, runs, last>>

SetNumPlanets ==
    \E v \in NumPlanetsRequests :
       /\ props' = [props EXCEPT !.num_planets = Clamp(v, MinPlanets, MaxPlanets)]
       /\ requested' = [requested EXCEPT !.num_planets = v]
       /\ UNCHANGED <<objects, meshes, linked, bmeshes, runs, last>>

---------------------------------------------------------------------------
(* OBJECT_OT_GeneratePlanetaryGears.execute.  x is the state of one run:   *)
(* [w, linked, events, raised]; events are the calls it makes, in order.   *)

call_event(name, num_teeth, is_internal, ret) ==
    [op |-> "create_gear_object", name |-> name, index |-> 0, obj |-> ret,
     num_teeth |-> num_teeth, is_internal |-> is_internal]

sink_event(op, name, index, obj) ==
    [op |-> op, name |-> name, index |-> index, obj |-> obj,
     num_teeth |-> 0, is_internal |-> FALSE]

\* context.collection.objects.link
link(x, obj) ==
    [x EXCEPT !.linked = @ \cup {obj},
              !.events = Append(@, sink_event("link", x.w.objects[obj].name,
                                              x.w.objects[obj].index, obj))]

\* the run is given up when a gear is not built
after_call_cancel(x, call, name, num_teeth, is_internal) ==
    [x EXCEPT !.w = call.w,
              !.events = Append(@, call_event(name, num_teeth, is_internal, call.ret)),
              !.raised = IF call.ret = None /\ call.raised = NoError
                         THEN "cancelled" ELSE call.raised]

\* what a create_gear_object call leaves in the run
after_call(x, call, name, num_teeth, is_internal) ==
    [x EXCEPT !.w = call.w,
              !.events = Append(@, call_event(name, num_teeth, is_internal, call.ret)),
              !.raised = call.raised]

module_of(p) == [num |-> p.scale, den |-> 1]

\* one planet diameter in place of two
ring_teeth_single(p) == p.sun_teeth + p.planet_teeth

\* line 166
ring_teeth_of(p) == p.sun_teeth + 2 * p.planet_teeth

\* lines 168-173
sun_stage(x, p, faces_new) ==
    IF x.raised # NoError THEN x
    ELSE LET call == create_gear_object(x.w, "SunGear", p.sun_teeth, module_of(p), FALSE,
                                        p.thickness, p.pressure_angle, RingMarginArg,
                                        faces_new)
             sun_gear == call.ret
             x1 == after_call(x, call, "SunGear", p.sun_teeth, FALSE)
             rotation == IF p.sun_teeth > 0 THEN [num |-> 1, den |-> p.sun_teeth]
                         ELSE [num |-> 0, den |-> 1]
         IN IF call.raised = NoError /\ sun_gear # None
            THEN link([x1 EXCEPT !.w.objects[sun_gear].rotation_z = rotation], sun_gear)
            ELSE x1

\* lines 175-179
ring_stage(x, p, faces_new) ==
    IF x.raised # NoError THEN x
    ELSE LET ring_teeth == ring_teeth_of(p)
             effective_module_for_ring ==
                 IF ring_teeth > 0
                 THEN [num |-> p.scale * ring_teeth + 4 * p.clearance, den |-> ring_teeth]
                 ELSE module_of(p)
             call == create_gear_object(x.w, "RingGear", ring_teeth,
                                        effective_module_for_ring, TRUE, p.thickness,
                                        p.pressure_angle, p.ring_margin, faces_new)
             ring_gear == call.ret
             x1 == after_call(x, call, "RingGear", ring_teeth, TRUE)
         IN IF call.raised = NoError /\ ring_gear # None
            THEN link(x1, ring_gear)
            ELSE x1

\* lines 187-193: for i in range(num_planets), a new object on the template's
\* mesh data, placed, rotated and linked; range is empty for num_planets <= 0
planet_loop(x, p, template) ==
    LET count == Max(p.num_planets, 0)
        first == Len(x.w.objects)
        orbit_radius == (p.sun_teeth + p.planet_teeth) * p.scale + 2 * p.clearance
        rotation_ratio == IF p.planet_teeth > 0
                          THEN [num |-> p.planet_teeth + p.sun_teeth, den |-> p.planet_teeth]
                          ELSE [num |-> 1, den |-> 1]
        planet_gear(i) ==
            [name |-> "PlanetGear_", index |-> i + 1,
             data |-> x.w.objects[template].data,
             location |-> [radius |-> orbit_radius,
                           angle |-> [num |-> 2 * i, den |-> p.num_planets]],
             rotation_z |-> [num |-> p.num_planets * rotation_ratio.den
                                     - 2 * i * rotation_ratio.num,
                             den |-> p.num_planets * rotation_ratio.den],
             alive |-> TRUE]
        calls == [k \in 1..(2 * count) |->
                    sink_event(IF k % 2 = 1 THEN "objects.new" ELSE "link",
                               "PlanetGear_", (k + 1) \div 2, first + (k + 1) \div 2)]
    IN [x EXCEPT !.w.objects = @ \o [k \in 1..count |-> planet_gear(k - 1)],
                 !.linked = @ \cup (first + 1)..(first + count),
                 !.events = @ \o calls]

\* bpy.data.objects.remove
remove(x, obj) ==
    [x EXCEPT !.w.objects[obj].alive = FALSE,
              !.linked = @ \ {obj},
              !.events = Append(@, sink_event("remove", x.w.objects[obj].name,
                                              x.w.objects[obj].index, obj))]

\* the template is removed before the instances are made
instance_planets_early(x, p, planet_gear_template) ==
    planet_loop(remove(x, planet_gear_template), p, planet_gear_template)

\* lines 183-196
instance_planets(x, p, planet_gear_template) ==
    remove(planet_loop(x, p, planet_gear_template), planet_gear_template)

\* lines 181-196
planet_stage(x, p, faces_new) ==
    IF x.raised # NoError THEN x
    ELSE LET call == create_gear_object(x.w, "PlanetGearTemplate", p.planet_teeth,
                                        module_of(p), FALSE, p.thickness,
                                        p.pressure_angle, RingMarginArg, faces_new)
             planet_gear_template == call.ret
             x1 == after_call(x, call, "PlanetGearTemplate", p.planet_teeth, FALSE)
         IN IF call.raised = NoError /\ planet_gear_template # None
            THEN instance_planets(x1, p, planet_gear_template)
            ELSE x1

execute(w, coll, p, env) ==
    planet_stage(
        ring_stage(
            sun_stage([w |-> w, linked |-> coll, events |-> << >>, raised |-> NoError],
                      p, env.sun),
            p, env.ring),
        p, env.planet)

\* the state a run x of execute leaves
Finished(x, env) ==
    /\ objects' = x.w.objects
    /\ meshes' = x.w.meshes
    /\ bmeshes' = x.w.bmeshes
    /\ linked' = x.linked
    /\ runs' = Append(runs, [requested |-> requested, props |-> props,
                             env |-> env, events |-> x.events,
                             raised |-> x.raised])

Execute ==
    /\ Len(runs) < MaxExecutes
    /\ \E env \in [sun : {"OK", "ValueError"}, ring : {"OK", "ValueError"},
                   planet : {"OK", "ValueError"}] :
          Finished(execute(World, linked, props, env), env)
    /\ UNCHANGED <<props, requested, last>>

Next == SetSunTeeth \/ SetPlanetTeeth \/ SetNumPlanets \/ Execute

Spec == Init /\ [][Next]_vars

---------------------------------------------------------------------------
(* Properties *)

DropLast(seq) == SubSeq(seq, 1, Len(seq) - 1)

Gears == {"sun", "ring", "planet"}

GearName(g) ==
    CASE g = "sun" -> "SunGear"
      [] g = "ring" -> "RingGear"
      [] g = "planet" -> "PlanetGearTemplate"

\* the names of the objects execute makes for gear g
NamesOf(g) == IF g = "planet" THEN {"PlanetGearTemplate", "PlanetGear_"} ELSE {GearName(g)}

\* the positions in run r of the create_gear_object calls for `name`
CallsFor(r, name) ==
    {k \in DOMAIN r.events :
        r.events[k].op = "create_gear_object" /\ r.events[k].name = name}

\* the create_gear_object calls of all runs that returned an object
BuiltCalls ==
    UNION {{<<i, k>> : k \in {j \in DOMAIN runs[i].events :
                                 /\ runs[i].events[j].op = "create_gear_object"
                                 /\ runs[i].events[j].obj # None}} :
           i \in DOMAIN runs}

\* the last direct call returned normally, for a tooth count of at least 3
ReturnedOutline == last.called /\ last.raised = NoError /\ last.num_teeth >= 3

\* C1 (as claimed): a run requested with sun_teeth < 1, planet_teeth < 1 or
\* num_planets < 1 is rejected before any geometry work: it makes no
\* create_gear_object call and links nothing.
C1_InvalidParametersRejected ==
    \A i \in DOMAIN runs :
        (\/ runs[i].requested.sun_teeth < 1
         \/ runs[i].requested.planet_teeth < 1
         \/ runs[i].requested.num_planets < 1)
        => runs[i].events = << >>

\* C2: in every run each of the three gears is requested exactly once,
\* whatever happened to the others; a gear whose construction fails returns
\* no object, adds no mesh and nothing is created or linked for it; a gear
\* that is built is linked (the planet template: its num_planets instances).
C2_FailureIsolation ==
    /\ Len(meshes) = Cardinality(BuiltCalls)
    /\ \A i \in DOMAIN runs : \A g \in Gears :
          LET r == runs[i]
              calls == CallsFor(r, GearName(g))
          IN /\ Cardinality(calls) = 1
             /\ \A k \in calls :
                   IF r.env[g] = "ValueError"
                   THEN /\ r.events[k].obj = None
                        /\ \A j \in DOMAIN r.events :
                              r.events[j].name \in NamesOf(g) => j = k
                   ELSE /\ r.events[k].obj # None
                        /\ IF g = "planet"
                           THEN \A n \in 1..r.props.num_planets :
                                   \E j \in DOMAIN r.events :
                                      /\ j > k
                                      /\ r.events[j].op = "link"
                                      /\ r.events[j].name = "PlanetGear_"
                                      /\ r.events[j].index = n
                                      /\ r.events[j].obj \in linked
                           ELSE \E j \in DOMAIN r.events :
                                   /\ j > k
                                   /\ r.events[j].op = "link"
                                   /\ r.events[j].obj = r.events[k].obj
                                   /\ r.events[k].obj \in linked

C2_Witness ==
    \E i \in DOMAIN runs :
        /\ runs[i].env = [sun |-> "OK", ring |-> "ValueError", planet |-> "OK"]
        /\ \E k \in CallsFor(runs[i], "RingGear") : runs[i].events[k].obj = None
        /\ \E k \in CallsFor(runs[i], "SunGear") : runs[i].events[k].obj \in linked
        /\ \E j \in DOMAIN runs[i].events :
              /\ runs[i].events[j].op = "link"
              /\ runs[i].events[j].name = "PlanetGear_"
              /\ runs[i].events[j].index = runs[i].props.num_planets

\* C3 (as claimed): for tooth_count >= 3 the outline build_gear_verts returns
\* has tooth_count * (2 * segments + 3) + 1 points.
C3_CountAsClaimed ==
    ReturnedOutline =>
        Len(last.verts_2d) = last.num_teeth * (2 * num_segments + 3) + 1

\* C3 (amended): for tooth_count >= 3 the outline build_gear_verts returns has
\* tooth_count * (2 * segments + 4) + 1 points: per tooth one root-start
\* point, segments + 1 ascending samples, segments + 1 descending samples and
\* one root-end point, plus one closing point.
C3_OutlinePointCount ==
    ReturnedOutline =>
        Len(last.verts_2d) = last.num_teeth * (2 * num_segments + 4) + 1

C3_Witness ==
    /\ ReturnedOutline
    /\ last.num_teeth = 4
    /\ Len(last.verts_2d) = 57

\* C4: for tooth_count >= 3, internal or not, the outline build_gear_verts
\* returns is a closed loop: its last point is its first point.
C4_ClosedLoop ==
    ReturnedOutline =>
        /\ Len(last.verts_2d) >= 2
        /\ last.verts_2d[Len(last.verts_2d)] = last.verts_2d[1]

C4_Witness ==
    /\ ReturnedOutline
    /\ last.is_internal
    /\ last.verts_2d[Len(last.verts_2d)] = last.verts_2d[1]
    /\ last.verts_2d[1].rot = last.num_teeth - 1

\* C5: in a run whose planet template is built, exactly num_planets objects
\* are created, PlanetGear_1 .. PlanetGear_num_planets in that order, each
\* linked as soon as it is created and each on the template's own mesh data,
\* which is the unchanged mesh create_gear_object built and is not copied;
\* the template is never linked, and its removal is the last call of the run.
C5_PlanetInstancing ==
    /\ Len(meshes) = Cardinality(BuiltCalls)
    /\ \A i \in DOMAIN runs : \A t \in CallsFor(runs[i], "PlanetGearTemplate") :
          LET r == runs[i]
              template == r.events[t].obj
              news == {k \in DOMAIN r.events : r.events[k].op = "objects.new"}
          IN template # None =>
                /\ Cardinality(news) = r.props.num_planets
                /\ \A n \in 1..r.props.num_planets :
                      LET k == t + 2 * n - 1
                      IN /\ k + 1 \in DOMAIN r.events
                         /\ r.events[k].op = "objects.new"
                         /\ r.events[k].name = "PlanetGear_"
                         /\ r.events[k].index = n
                         /\ r.events[k + 1].op = "link"
                         /\ r.events[k + 1].obj = r.events[k].obj
                         /\ r.events[k].obj # template
                         /\ r.events[k].obj \in linked
                         /\ objects[r.events[k].obj].alive
                         /\ objects[r.events[k].obj].data = objects[template].data
                /\ meshes[objects[template].data].name = "PlanetGearTemplate"
                /\ meshes[objects[template].data].geom.num_teeth = r.props.planet_teeth
                /\ \A k \in DOMAIN r.events :
                      r.events[k].op = "link" => r.events[k].obj # template
                /\ template \notin linked
                /\ ~objects[template].alive
                /\ \A k \in DOMAIN r.events :
                      (r.events[k].op = "remove") <=> (k = Len(r.events))
                /\ r.events[Len(r.events)].obj = template

C5_Witness ==
    \E i \in DOMAIN runs : \E t \in CallsFor(runs[i], "PlanetGearTemplate") :
        /\ runs[i].events[t].obj # None
        /\ runs[i].props.num_planets = DefaultNumPlanets
        /\ Cardinality({o \in linked : objects[o].name = "PlanetGear_"
                                      /\ objects[o].data = objects[runs[i].events[t].obj].data})
              = DefaultNumPlanets
        /\ ~objects[runs[i].events[t].obj].alive

\* C6 (as claimed): create_gear_object with tooth_count <= 0 returns a failure
\* result (no object) without raising and without running the outline
\* algorithm.
C6_NonPositiveRejected ==
    (last.called /\ last.num_teeth <= 0) =>
        /\ last.raised = NoError
        /\ last.ret = None
        /\ last.path # "empty outline"

\* C7 (as claimed): the face of an external gear has the outline's points
\* without the closing point: outline length - 1 vertices, the first and the
\* last of them at different positions.
C7_FaceDropsClosingPoint ==
    (last.called /\ last.ret # None /\ ~last.is_internal) =>
        /\ Len(last.face) = Len(last.verts_2d) - 1
        /\ last.face[1] # last.face[Len(last.face)]

\* C8: for tooth_count >= 3 the outline returned with is_internal = true,
\* closing point removed, is the outline returned with is_internal = false
\* for the same other arguments, closing point removed, in reversed order.
C8_InternalIsReversed ==
    (ReturnedOutline /\ last.is_internal) =>
        DropLast(last.verts_2d) =
            Reverse(DropLast(build_gear_verts(last.num_teeth, last.scale, FALSE,
                                              last.pressure_angle_deg)))

C8_Witness ==
    /\ ReturnedOutline
    /\ last.is_internal
    /\ last.num_teeth = 3
    /\ Len(last.verts_2d) = 43
    /\ last.verts_2d[1] # build_gear_verts(3, last.scale, FALSE, last.pressure_angle_deg)[1]

\* C9: in every run the ring gear is requested with sun_teeth +
\* 2 * planet_teeth teeth and is_internal = true, the sun with sun_teeth and
\* the planet template with planet_teeth teeth, both with is_internal = false.
C9_RingTeeth ==
    \A i \in DOMAIN runs :
        LET r == runs[i]
        IN /\ \E k \in DOMAIN r.events :
                 r.events[k].op = "create_gear_object" /\ r.events[k].name = "RingGear"
           /\ \A k \in DOMAIN r.events :
                 r.events[k].op = "create_gear_object" =>
                    CASE r.events[k].name = "SunGear" ->
                            /\ r.events[k].num_teeth = r.props.sun_teeth
                            /\ ~r.events[k].is_internal
                      [] r.events[k].name = "RingGear" ->
                            /\ r.events[k].num_teeth
                                  = r.props.sun_teeth + 2 * r.props.planet_teeth
                            /\ r.events[k].is_internal
                      [] r.events[k].name = "PlanetGearTemplate" ->
                            /\ r.events[k].num_teeth = r.props.planet_teeth
                            /\ ~r.events[k].is_internal

C9_Witness ==
    \E i \in DOMAIN runs : \E k \in CallsFor(runs[i], "RingGear") :
        /\ runs[i].props.sun_teeth = 32
        /\ runs[i].props.planet_teeth = 16
        /\ runs[i].events[k].num_teeth = 64
        /\ runs[i].events[k].is_internal

\* C10 (as claimed): when create_gear_object returns, on any path, the bmesh
\* builder it allocated has been freed exactly once, and a mesh and an object
\* exist only on the normal-completion path.
C10_BuilderFreedOnce ==
    (last.called /\ last.raised = NoError) =>
        /\ bmeshes[last.bm].frees = 1
        /\ (last.ret # None) <=> (last.path = "completed")

====
